---- MODULE Spec2Model ----
(***************************************************************************)
(* Model of src/wiki.py: AudiobookshelfMetadataUpdater.                    *)
(* One run of process_authors over the author list the library server      *)
(* returns, with every HTTP exchange (encyclopedia lookup, description     *)
(* PATCH, image POST) an input drawn from a small set of outcomes.         *)
(***************************************************************************)
EXTENDS Integers, Sequences, FiniteSets

\* ---------------------------------------------------------------- bounds
MaxAuthors == 2

\* ---------------------------------------------------------------- values
\* Python values of the optional string fields: None, '' and a real string.
None == "None"
DescriptionValues == {None, "", "An existing bio."}
ImagePathValues == {None, "/img.jpg"}
\* 'extract' of the page as the encyclopedia returns it (missing, blank, text)
ExtractValues == {None, "  ", " Jane Doe is a writer... "}
\* page_info['original']['source'] (missing, or a URL)
SourceValues == {None, "http://x/y.jpg"}
\* what the two-step lookup can run into
LookupOutcomes == {"error", "no_results", "found"}

AuthorRecords == [description : DescriptionValues, imagePath : ImagePathValues]

\* HTTP exchange of the library session: a transport error, or a response
StatusCodes == {200, 204, 304, 404, 500}
NoRequest == [sent |-> FALSE, error |-> FALSE, status_code |-> 0]
Responses == {[sent |-> TRUE, error |-> TRUE, status_code |-> 0]}
             \cup {[sent |-> TRUE, error |-> FALSE, status_code |-> s] : s \in StatusCodes}

\* bool(v) of an Optional[str]
Truthy(v) == v # None /\ v # ""

\* str.strip() on the extract values; dict.get('extract', '') for a missing key
strip(s) == IF s = None THEN ""
            ELSE IF s = "  " THEN ""
            ELSE IF s = " Jane Doe is a writer... " THEN "Jane Doe is a writer..."
            ELSE s

\* requests.Response.raise_for_status: raises for 4xx and 5xx only
raise_for_status(r) == r.status_code >= 400 /\ r.status_code < 600

\* ---------------------------------------------------------------- pure parts
NeedsUpdateAnd(author) ==
    (~Truthy(author.description)) /\ (~Truthy(author.imagePath))

needs_update(author) ==
    LET missing_description == ~Truthy(author.description)
        missing_image == ~Truthy(author.imagePath)
    IN missing_description \/ missing_image

NoData == [found |-> FALSE, description |-> None, image_url |-> None]

search_wikipedia(outcome, extract, source) ==
    IF outcome = "error" THEN NoData
    ELSE IF outcome = "no_results" THEN NoData
    ELSE [found |-> TRUE, description |-> strip(extract), image_url |-> source]

upload_image_url(resp) ==
    LET raisedInTry == resp.error
                       \/ (resp.status_code # 200 /\ raise_for_status(resp))
    IN IF raisedInTry THEN [ret |-> FALSE, exc |-> FALSE]
       ELSE [ret |-> TRUE, exc |-> FALSE]

NoCall == [invoked |-> FALSE, description |-> None, image_url |-> None,
           patch |-> NoRequest, post |-> NoRequest,
           image_success |-> FALSE, ret |-> FALSE, exc |-> FALSE]

UpdateAuthorIgnoreImage(description, image_url, patchResp, postResp) ==
    LET doPatch == Truthy(description)
        patchRaised == doPatch /\ (patchResp.error \/ raise_for_status(patchResp))
        doPost == (~patchRaised) /\ Truthy(image_url)
        img == upload_image_url(postResp)
    IN [invoked |-> TRUE, description |-> description, image_url |-> image_url,
        patch |-> IF doPatch THEN patchResp ELSE NoRequest,
        post |-> IF doPost THEN postResp ELSE NoRequest,
        image_success |-> doPost /\ img.ret,
        ret |-> ~patchRaised, exc |-> FALSE]

UpdateAuthorNoExcept(description, image_url, patchResp, postResp) ==
    LET doPatch == Truthy(description)
        patchRaised == doPatch /\ (patchResp.error \/ raise_for_status(patchResp))
        doPost == (~patchRaised) /\ Truthy(image_url)
        img == upload_image_url(postResp)
        success == IF doPost THEN (TRUE /\ img.ret) ELSE TRUE
        raisedInTry == patchRaised \/ (doPost /\ img.exc)
    IN [invoked |-> TRUE, description |-> description, image_url |-> image_url,
        patch |-> IF doPatch THEN patchResp ELSE NoRequest,
        post |-> IF doPost THEN postResp ELSE NoRequest,
        image_success |-> doPost /\ img.ret,
        ret |-> (~raisedInTry) /\ success, exc |-> raisedInTry]

update_author(description, image_url, patchResp, postResp) ==
    LET doPatch == Truthy(description)
        \* session.patch raising, or raise_for_status raising, leaves the try
        patchRaised == doPatch /\ (patchResp.error \/ raise_for_status(patchResp))
        doPost == (~patchRaised) /\ Truthy(image_url)
        img == upload_image_url(postResp)
        success == IF doPost THEN (TRUE /\ img.ret) ELSE TRUE
        raisedInTry == patchRaised \/ (doPost /\ img.exc)
    IN [invoked |-> TRUE, description |-> description, image_url |-> image_url,
        patch |-> IF doPatch THEN patchResp ELSE NoRequest,
        post |-> IF doPost THEN postResp ELSE NoRequest,
        image_success |-> doPost /\ img.ret,
        ret |-> IF raisedInTry THEN FALSE ELSE success,
        exc |-> FALSE]

\* the arguments process_authors passes (field-level merge)
MergeDescriptionOverwrite(author, wiki) == wiki.description

merge_description(author, wiki) ==
    IF ~Truthy(author.description) THEN wiki.description ELSE None

merge_image_url(author, wiki) ==
    IF ~Truthy(author.imagePath) THEN wiki.image_url ELSE None

\* ---------------------------------------------------------------- state
VARIABLES
    server,         \* the author list held by the library server
    dry_run,        \* argument of process_authors
    pc,             \* position of process_authors
    authors,        \* local: result of get_all_authors
    i,              \* local: index of the loop's current author
    updated_count,  \* local counter
    skipped_count,  \* local counter
    wiki_data,      \* local: result of search_wikipedia
    outcome,        \* what the last lookup ran into
    call,           \* the update_author call of the current iteration
    handled,        \* authors examined so far, in order, with what was done
    sleeps,         \* number of time.sleep(delay) calls
    patched,        \* authors a description PATCH was sent for
    posted,         \* authors an image POST was sent for
    written         \* authors with a write the client took as successful

vars == <<server, dry_run, pc, authors, i, updated_count, skipped_count,
          wiki_data, outcome, call, handled, sleeps, patched, posted, written>>

AuthorLists == UNION {[1..n -> AuthorRecords] : n \in 0..MaxAuthors}

Init ==
    /\ server \in AuthorLists
    /\ dry_run \in BOOLEAN
    /\ pc = "start"
    /\ authors = <<>>
    /\ i = 1
    /\ updated_count = 0
    /\ skipped_count = 0
    /\ wiki_data = NoData
    /\ outcome = "none"
    /\ call = NoCall
    /\ handled = <<>>
    /\ sleeps = 0
    /\ patched = {}
    /\ posted = {}
    /\ written = {}

\* ---------------------------------------------------------------- actions
\* get_all_authors, and the 'if not authors: return' that follows it
GetAllAuthors ==
    /\ pc = "start"
    /\ \E resp \in Responses :
          authors' = IF resp.error \/ raise_for_status(resp) THEN <<>> ELSE server
    /\ pc' = IF authors' = <<>> THEN "returned" ELSE "loop"
    /\ UNCHANGED <<server, dry_run, i, updated_count, skipped_count, wiki_data,
                   outcome, call, handled, sleeps, patched, posted, written>>

\* loop body, 'if not self.needs_update(author)': count and continue
Skip ==
    /\ pc = "loop"
    /\ i <= Len(authors)
    /\ ~needs_update(authors[i])
    /\ skipped_count' = skipped_count + 1
    /\ handled' = Append(handled, [author |-> i, did |-> "skip"])
    /\ i' = i + 1
    /\ UNCHANGED <<server, dry_run, pc, authors, updated_count, wiki_data,
                   outcome, call, sleeps, patched, posted, written>>

\* loop body, 'wiki_data = self.search_wikipedia(author_name)'
SearchWikipedia ==
    /\ pc = "loop"
    /\ i <= Len(authors)
    /\ needs_update(authors[i])
    /\ \E o \in LookupOutcomes, e \in ExtractValues, s \in SourceValues :
          /\ wiki_data' = search_wikipedia(o, e, s)
          /\ outcome' = o
    /\ handled' = Append(handled, [author |-> i, did |-> "lookup"])
    /\ pc' = "looked"
    /\ UNCHANGED <<server, dry_run, authors, i, updated_count, skipped_count,
                   call, sleeps, patched, posted, written>>

\* 'if wiki_data:' is false
NoWikiDataNoSleep ==
    /\ pc = "looked"
    /\ ~wiki_data.found
    /\ pc' = "loop"
    /\ i' = i + 1
    /\ UNCHANGED <<server, dry_run, authors, updated_count, skipped_count,
                   wiki_data, outcome, call, handled, sleeps, patched, posted,
                   written>>

NoWikiDataCounted ==
    /\ pc = "looked"
    /\ ~wiki_data.found
    /\ pc' = "sleep"
    /\ skipped_count' = skipped_count + 1
    /\ UNCHANGED <<server, dry_run, authors, i, updated_count,
                   wiki_data, outcome, call, handled, sleeps, patched, posted,
                   written>>

NoWikiData ==
    /\ pc = "looked"
    /\ ~wiki_data.found
    /\ pc' = "sleep"
    /\ UNCHANGED <<server, dry_run, authors, i, updated_count, skipped_count,
                   wiki_data, outcome, call, handled, sleeps, patched, posted,
                   written>>

\* 'if dry_run:' only logs
DryRunLog ==
    /\ pc = "looked"
    /\ wiki_data.found
    /\ dry_run
    /\ pc' = "sleep"
    /\ UNCHANGED <<server, dry_run, authors, i, updated_count, skipped_count,
                   wiki_data, outcome, call, handled, sleeps, patched, posted,
                   written>>

\* the live branch with a given guard on dry_run
LiveUpdateWhen(guard) ==
    /\ pc = "looked"
    /\ wiki_data.found
    /\ guard
    /\ \E patchResp \in Responses, postResp \in Responses :
          LET r == update_author(merge_description(authors[i], wiki_data),
                                 merge_image_url(authors[i], wiki_data),
                                 patchResp, postResp)
              patchOk == r.patch.sent /\ ~(r.patch.error \/ raise_for_status(r.patch))
          IN /\ call' = r
             /\ patched' = IF r.patch.sent THEN patched \cup {i} ELSE patched
             /\ posted' = IF r.post.sent THEN posted \cup {i} ELSE posted
             /\ written' = IF patchOk \/ r.image_success
                           THEN written \cup {i} ELSE written
             /\ IF r.exc
                THEN /\ pc' = "crashed"
                     /\ updated_count' = updated_count
                ELSE /\ pc' = "sleep"
                     /\ updated_count' = IF r.ret THEN updated_count + 1
                                         ELSE updated_count
    /\ UNCHANGED <<server, dry_run, authors, i, skipped_count, wiki_data,
                   outcome, handled, sleeps>>

LiveUpdateAnyMode == LiveUpdateWhen(TRUE)

\* 'else:' update_author with the merged arguments, count a success
LiveUpdate == LiveUpdateWhen(~dry_run)

\* 'time.sleep(delay)', then the next iteration
Sleep ==
    /\ pc = "sleep"
    /\ sleeps' = sleeps + 1
    /\ i' = i + 1
    /\ call' = NoCall
    /\ pc' = "loop"
    /\ UNCHANGED <<server, dry_run, authors, updated_count, skipped_count,
                   wiki_data, outcome, handled, patched, posted, written>>

\* list exhausted: the final summary is logged
Summary ==
    /\ pc = "loop"
    /\ i > Len(authors)
    /\ pc' = "done"
    /\ UNCHANGED <<server, dry_run, authors, i, updated_count, skipped_count,
                   wiki_data, outcome, call, handled, sleeps, patched, posted,
                   written>>

Next ==
    \/ GetAllAuthors
    \/ Skip
    \/ SearchWikipedia
    \/ NoWikiData
    \/ DryRunLog
    \/ LiveUpdate
    \/ Sleep
    \/ Summary

Spec == Init /\ [][Next]_vars

\* process_authors is straight-line synchronous code: it keeps running
FairSpec == Init /\ [][Next]_vars /\ WF_vars(Next)

\* ---------------------------------------------------------------- properties
Full(author) == Truthy(author.description) /\ Truthy(author.imagePath)

Examined == {handled[k].author : k \in 1..Len(handled)}

Lookups == Cardinality({k \in 1..Len(handled) : handled[k].did = "lookup"})

Is2xx(r) == (~r.error) /\ r.status_code >= 200 /\ r.status_code < 300

\* C1: in a live run a description PATCH is sent for an author only if the
\* author's original description was empty/null, and an image POST only if the
\* original imagePath was empty/null: a field that already holds a value is
\* never written, whatever the lookup returned.
C1_NoOverwrite ==
    (~dry_run) =>
        \A a \in 1..Len(authors) :
            /\ (a \in patched => ~Truthy(authors[a].description))
            /\ (a \in posted => ~Truthy(authors[a].imagePath))

\* an author with a description but no image got the image POST and no PATCH,
\* although the lookup returned a (different) description
C1_Witness ==
    /\ ~dry_run
    /\ pc = "sleep"
    /\ Truthy(authors[i].description)
    /\ Truthy(wiki_data.description)
    /\ wiki_data.description # authors[i].description
    /\ i \in posted
    /\ i \notin patched

\* C2: in dry-run mode no PATCH and no POST is ever sent, and update_author is
\* never called, whatever the lookups return.
C2_DryRunNoWrites ==
    dry_run => (patched = {} /\ posted = {} /\ written = {} /\ ~call.invoked)

\* a dry run whose lookup found both a description and an image
C2_Witness ==
    /\ dry_run
    /\ pc = "sleep"
    /\ wiki_data.found
    /\ Truthy(wiki_data.description)
    /\ Truthy(wiki_data.image_url)
    /\ ~Truthy(authors[i].description)
    /\ ~Truthy(authors[i].imagePath)

\* C3: a fully populated author does not need an update, is counted as skipped
\* exactly once, and gets no lookup and no write; so the skipped counter equals
\* the number of fully populated authors examined, and at the end of the run
\* the number of lookups equals the number of authors missing a field.
C3_FullAuthorsSkipped ==
    /\ \A a \in 1..Len(authors) :
          Full(authors[a]) =>
             /\ ~needs_update(authors[a])
             /\ a \notin patched \cup posted
             /\ \A k \in 1..Len(handled) :
                   handled[k].author = a => handled[k].did = "skip"
    /\ skipped_count = Cardinality({a \in Examined : Full(authors[a])})
    /\ Lookups = Cardinality({a \in Examined : ~Full(authors[a])})
    /\ (pc = "done" =>
          Lookups = Cardinality({a \in 1..Len(authors) : ~Full(authors[a])}))

\* two authors, the second fully populated: one lookup, one skip
C3_Witness ==
    /\ pc = "done"
    /\ Len(authors) = 2
    /\ ~Full(authors[1])
    /\ Full(authors[2])
    /\ skipped_count = 1
    /\ Lookups = 1

\* C4: while process_authors deals with an author whose lookup returned absent
\* (the lookup itself, the 'if wiki_data' test, the pacing delay), neither
\* counter changes and no write is sent.
C4_AbsentLeavesCounters ==
    [][ ((pc' = "looked" /\ ~wiki_data'.found)
          \/ (pc \in {"looked", "sleep"} /\ ~wiki_data.found))
        => (/\ updated_count' = updated_count
            /\ skipped_count' = skipped_count
            /\ patched' = patched
            /\ posted' = posted
            /\ ~call'.invoked) ]_vars

\* a live run that is past its first author, whose search had no results
C4_Witness ==
    /\ ~dry_run
    /\ pc = "loop"
    /\ i = 2
    /\ handled[1].did = "lookup"
    /\ outcome = "no_results"
    /\ ~wiki_data.found
    /\ updated_count = 0
    /\ skipped_count = 0

\* the description update as update_author judges it: nothing was raised
PatchSucceeded(r) == ~(r.error \/ raise_for_status(r))

\* C5: update_author sends the PATCH only for a non-empty description and
\* calls the image upload only for a non-empty image URL; it never raises; and
\* it returns true exactly when every sub-operation it invoked reported
\* success (so it returns true when it invoked none).
C5_UpdateAuthorResult ==
    call.invoked =>
        /\ (call.patch.sent => Truthy(call.description))
        /\ (call.post.sent => Truthy(call.image_url))
        /\ ~call.exc
        /\ call.ret = ((call.patch.sent => PatchSucceeded(call.patch))
                       /\ (call.post.sent => call.image_success))
        /\ ((~Truthy(call.description) /\ ~Truthy(call.image_url)) => call.ret)

\* both sub-operations invoked, the description update fine, the upload failed
C5_Witness ==
    /\ call.invoked
    /\ call.patch.sent
    /\ PatchSucceeded(call.patch)
    /\ call.post.sent
    /\ ~call.image_success
    /\ ~call.ret

\* update_author called with nothing to write returns true
C5_WitnessNothingInvoked ==
    /\ call.invoked
    /\ ~call.patch.sent
    /\ ~call.post.sent
    /\ call.ret

\* C6: upload_image_url reports true only for a 2xx response and false for a
\* transport error and for every response outside the 2xx range.
C6_UploadTrueOnly2xx ==
    call.post.sent => (call.image_success <=> Is2xx(call.post))

\* C7: every author of the list is examined exactly once and in list order
\* (a skip or one lookup, never a second attempt), no failure ends the run
\* early, and a run that entered the loop reaches the final summary with all
\* authors examined.
C7_EveryAuthorOnce ==
    /\ [](\A k \in 1..Len(handled) : handled[k].author = k)
    /\ [](pc # "crashed")
    /\ [](pc = "done" => Len(handled) = Len(authors))
    /\ ((pc = "loop") ~> (pc = "done"))

\* the run finished, and looked up the second author, although the
\* description write for the first author failed
C7_Witness ==
    /\ pc = "done"
    /\ Len(authors) = 2
    /\ Len(handled) = 2
    /\ 1 \in patched
    /\ 1 \notin written
    /\ handled[2].did = "lookup"

\* C8: the pacing delay happens exactly once after each lookup attempt and
\* before the next author is examined, and never after a skip: between two
\* iterations the number of delays equals the number of lookups, and inside
\* an iteration that looked up exactly one delay is outstanding.
C8_DelayPerLookup ==
    /\ (pc \in {"looked", "sleep"} => Lookups = sleeps + 1)
    /\ (pc \notin {"looked", "sleep"} => Lookups = sleeps)

\* a finished run with a skipped author, then an absent lookup: one delay
C8_Witness ==
    /\ pc = "done"
    /\ Len(handled) = 2
    /\ handled[1].did = "skip"
    /\ handled[2].did = "lookup"
    /\ ~wiki_data.found
    /\ sleeps = 1

\* C9: called with a non-empty description and a non-empty image URL,
\* update_author attempts the image upload whether or not the description
\* update succeeded.
C9_ImageUploadIndependent ==
    (call.invoked /\ Truthy(call.description) /\ Truthy(call.image_url))
        => call.post.sent

\* C10: in a live run the updated counter never exceeds the number of authors
\* for whom some write request was sent and succeeded.
C10_UpdatedOnlyAfterWrite ==
    (~dry_run) => updated_count <= Cardinality(written)

====
